---- MODULE Spec2Model ----
(***************************************************************************)
(* warp-rate-limit: the per-key fixed-window rate limiter of src/src/lib.rs *)
(* (RateLimitConfig, RateLimiter::check_rate_limit, create_info,            *)
(* get_rate_limit_info) run by concurrent request tasks that share one      *)
(* RateLimiter through the filter built by with_rate_limit.                 *)
(*                                                                          *)
(* Time is counted in ticks; TicksPerSec ticks make one second.  Instant    *)
(* values are tick counts of the monotonic clock, Duration values are tick  *)
(* counts, DateTime<Utc> values are tick counts since the Unix epoch.       *)
(***************************************************************************)
EXTENDS Integers, Sequences, FiniteSets, TLC

(* ------------------------------ bounds --------------------------------- *)

NumTasks == 3          \* request tasks, one check each
MaxTime == 3           \* last tick of the monotonic clock
MaxQuota == 2          \* largest max_requests drawn for a configuration
MaxWindow == 2         \* largest window (ticks) drawn for a configuration
TicksPerSec == 2       \* clock resolution: ticks per second
UtcOffset == 3         \* wall-clock ticks since the epoch at Instant 0
MaxChecks == 4         \* checks issued in a run that reuses finished tasks

Tasks == 1 .. NumTasks
NoTask == 0

(* --------------------------- configuration ----------------------------- *)

RetryAfterFormat == {"HttpDate", "Seconds"}

\* u32 arithmetic wraps modulo this in a build without overflow checks.  The
\* model checker's integers are 32 bits wide, so the word is modelled 16 bits
\* wide; every quota drawn is far below it.
U32Modulus == 65536

from_secs(secs) == secs * TicksPerSec

as_millis(duration) == (duration * 1000) \div TicksPerSec

\* Duration::as_secs: the whole seconds.
as_secs(duration) == duration \div TicksPerSec

RateLimitConfig == [max_requests : 0 .. MaxQuota,
                    window : 0 .. MaxWindow,
                    retry_after_format : RetryAfterFormat]

DefaultMaxRequests == 60
DefaultWindowSecs == 60
MinuteSecs == 60

\* impl Default for RateLimitConfig
default ==
    [max_requests |-> DefaultMaxRequests,
     window |-> from_secs(DefaultWindowSecs),
     retry_after_format |-> "HttpDate"]

MaxPerMinuteKeepsDefault(max) == default

\* RateLimitConfig::max_per_minute
max_per_minute(max) ==
    [default EXCEPT !.max_requests = max, !.window = from_secs(MinuteSecs)]

\* RateLimitConfig::max_per_window
max_per_window(max_requests, window_seconds) ==
    [default EXCEPT !.max_requests = max_requests,
                    !.window = from_secs(window_seconds)]

(* ---------------------------- the registry ----------------------------- *)

\* with_rate_limit keys the map by the peer's IP address, "unknown" without one.
Addrs == {"none", "10.0.0.1"}

KeyOf(addr) == IF addr = "none" THEN "unknown" ELSE addr

Keys == {KeyOf(a) : a \in Addrs}

\* HashMap::get gives None for a key that has no entry.
None == <<>>

InsertAll(map, k, entry) == [x \in DOMAIN map |-> entry]

\* HashMap::insert: one key's entry is replaced, the others stay.

Insert(map, k, entry) == [map EXCEPT ![k] = entry]

VARIABLES
    config,           \* RateLimiter.config
    state,            \* RateLimiter.state: key -> None or <<Instant, count>>
    lock,             \* the task holding the write guard of state, or NoTask
    clock,            \* the monotonic clock
    pc,               \* each task's position in check_rate_limit
    req,              \* each task's request: address, key, checks completed at issue
    now,              \* each task's local now
    current,          \* each task's local current
    log,              \* completed checks with their outcomes, in order of completion
    arg,              \* the call of a free function under study, NoArg in the limiter
    ret               \* what that call returned, NoRet before it returns

vars == <<config, state, lock, clock, pc, req, now, current, log, arg, ret>>

NoArg == [fn |-> "none"]
NoRet == [returned |-> FALSE]

\* Arc::new(RwLock::new(HashMap::new())) in RateLimiter::new: the allocation
\* that holds the map, named by its address.
SharedMap == 0

CloneCopies(limiter) == limiter + 1

\* #[derive(Clone)] on RateLimiter clones its Arcs: the clone is a handle to
\* the same allocation.
clone(limiter) == limiter

NoReq == [addr |-> "none", key |-> "unknown", seq |-> 0, limiter |-> SharedMap]

(* ------------------------------ rendering ------------------------------ *)

UtcNow(c) == UtcOffset + c

\* DateTime::timestamp: whole seconds since the epoch.
timestamp(datetime) == datetime \div TicksPerSec

\* A string is the sequence of its bytes.
Digit0 == 48

IsDigit(b) == b >= Digit0 /\ b <= Digit0 + 9

RECURSIVE to_string(_)
\* u64::to_string: the decimal digits, most significant first.
to_string(n) ==
    IF n < 10 THEN <<Digit0 + n>>
    ELSE Append(to_string(n \div 10), Digit0 + (n % 10))

RECURSIVE parse_u64(_)
\* str::parse::<u64> of a digit string.
parse_u64(s) ==
    IF Len(s) = 0 THEN 0
    ELSE 10 * parse_u64(SubSeq(s, 1, Len(s) - 1)) + (s[Len(s)] - Digit0)

\* The zone DateTime<Utc>::to_rfc2822 ends with: " +0000".
ZoneSuffix == <<32, 43, 48, 48, 48, 48>>

ToRfc2822RoundsUp(datetime) ==
    to_string((datetime + TicksPerSec - 1) \div TicksPerSec) \o ZoneSuffix

\* DateTime::to_rfc2822 prints the date to the second, then the zone.  The
\* calendar fields are modelled by the count of whole seconds they denote.
to_rfc2822(datetime) == to_string(datetime \div TicksPerSec) \o ZoneSuffix

\* DateTime::parse_from_rfc2822(..).timestamp(): the seconds a date denotes.
parse_from_rfc2822(s) == parse_u64(SubSeq(s, 1, Len(s) - Len(ZoneSuffix)))

(* --------------------------- check_rate_limit --------------------------- *)

\* Instant::duration_since
duration_since(later, earlier) == IF later >= earlier THEN later - earlier ELSE 0

WindowPassedInclusive(elapsed) == elapsed >= config.window

WindowAlwaysPassed(elapsed) == TRUE

\* now.duration_since(last_request) > self.config.window
WindowPassed(elapsed) == elapsed > config.window

QuotaReachedOffByOne(count) == count > config.max_requests

QuotaReached(count) == count >= config.max_requests

\* u32 subtraction a - b overflows: a panic in a build with overflow checks, a
\* wrapped value in a build without.
Overflows(a, b) == a < b

WrappingSub(a, b) == (a - b) % U32Modulus

create_info(remaining, start, utc) ==
    LET reset_time == start + config.window
        retry_after ==
            IF config.retry_after_format = "HttpDate"
            THEN to_rfc2822(utc + config.window)
            ELSE to_string(as_secs(config.window))
    IN  [kind |-> "Admitted",
         retry_after_str |-> retry_after,
         limit |-> config.max_requests,
         remaining |-> remaining,
         reset_timestamp |-> timestamp(utc + duration_since(reset_time, start)),
         retry_after_format |-> config.retry_after_format]

\* Ok(self.create_info(self.config.max_requests - sub, start)): the outcomes
\* the builds can produce.
InfoOrPanic(sub, start, utc) ==
    {create_info(WrappingSub(config.max_requests, sub), start, utc)}
    \cup (IF Overflows(config.max_requests, sub) THEN {[kind |-> "Panic"]} ELSE {})

RateLimitRejection(retry_after, utc) ==
    [kind |-> "Rejected",
     retry_after |-> retry_after,
     limit |-> config.max_requests,
     reset_time |-> utc + retry_after,
     retry_after_format |-> config.retry_after_format]

ResetKeepsStart(cur, tnow) == <<cur[1], 1>>

ResetEntry(cur, tnow) == <<tnow, 1>>

RejectTouches(cur, tnow) == <<tnow, cur[2]>>

\* The rejection arm inserts nothing.
RejectEntry(cur, tnow) == None

\* The match of check_rate_limit on the entry read: the entry to insert (None
\* when nothing is inserted) and the possible outcomes.
Match(cur, tnow, utc) ==
    IF cur # None
    THEN LET last_request == cur[1]
             count == cur[2]
             elapsed == duration_since(tnow, last_request)
         IN  IF WindowPassed(elapsed)
             THEN [insert |-> ResetEntry(cur, tnow),
                   results |-> InfoOrPanic(1, tnow, utc)]
             ELSE IF QuotaReached(count)
             THEN [insert |-> RejectEntry(cur, tnow),
                   results |-> {RateLimitRejection(config.window - elapsed, utc)}]
             ELSE [insert |-> <<last_request, count + 1>>,
                   results |-> InfoOrPanic(count + 1, last_request, utc)]
    ELSE [insert |-> <<tnow, 1>>,
          results |-> InfoOrPanic(1, tnow, utc)]

GetInfoRemainingIsLimit(rejection) ==
    [retry_after_str |->
         IF rejection.retry_after_format = "HttpDate"
         THEN to_rfc2822(rejection.reset_time)
         ELSE to_string(as_secs(rejection.retry_after)),
     limit |-> rejection.limit,
     remaining |-> rejection.limit,
     reset_timestamp |-> timestamp(rejection.reset_time),
     retry_after_format |-> rejection.retry_after_format]

get_rate_limit_info(rejection) ==
    [retry_after_str |->
         IF rejection.retry_after_format = "HttpDate"
         THEN to_rfc2822(rejection.reset_time)
         ELSE to_string(as_secs(rejection.retry_after)),
     limit |-> rejection.limit,
     remaining |-> 0,
     reset_timestamp |-> timestamp(rejection.reset_time),
     retry_after_format |-> rejection.retry_after_format]

(* ------------------------------- headers -------------------------------- *)

\* A HeaderMap is a function from the names it holds, in lower case as the
\* map stores them, to their values.
RETRY_AFTER == "retry-after"

HeaderNames ==
    {RETRY_AFTER, "x-ratelimit-limit", "x-ratelimit-remaining",
     "x-ratelimit-reset"}

\* HeaderMap::new
EmptyHeaders == [n \in {} |-> <<>>]

\* The bytes a header value may hold on the wire: no control character but
\* the tab.
IsValidByte(b) == (b >= 32 /\ b # 127) \/ b = 9

from_str_unchecked(s) == [ok |-> TRUE, value |-> s]

\* HeaderValue::from_str: Err(InvalidHeaderValue) on a byte that is not valid.
from_str(s) ==
    [ok |-> \A i \in 1 .. Len(s) : IsValidByte(s[i]), value |-> s]

\* HeaderMap::insert: the name's value is set, replacing an old one.
HeaderMapInsert(headers, name, value) ==
    [n \in DOMAIN headers \cup {name} |->
        IF n = name THEN value ELSE headers[n]]

AddHeadersRetryAfterLast(headers, info) ==
    LET v2 == from_str(to_string(info.limit))
        h2 == HeaderMapInsert(headers, "x-ratelimit-limit", v2.value)
        v3 == from_str(to_string(info.remaining))
        h3 == HeaderMapInsert(h2, "x-ratelimit-remaining", v3.value)
        v4 == from_str(to_string(info.reset_timestamp))
        h4 == HeaderMapInsert(h3, "x-ratelimit-reset", v4.value)
        v1 == from_str(info.retry_after_str)
        h1 == HeaderMapInsert(h4, RETRY_AFTER, v1.value)
    IN  IF ~v2.ok THEN [headers |-> headers, result |-> "HeaderError"]
        ELSE IF ~v3.ok THEN [headers |-> h2, result |-> "HeaderError"]
        ELSE IF ~v4.ok THEN [headers |-> h3, result |-> "HeaderError"]
        ELSE IF ~v1.ok THEN [headers |-> h4, result |-> "HeaderError"]
        ELSE [headers |-> h1, result |-> "Ok"]

\* add_rate_limit_headers: four inserts in order; the first value that is not
\* valid returns Err(RateLimitError::HeaderError) with the inserts made so far.
add_rate_limit_headers(headers, info) ==
    LET v1 == from_str(info.retry_after_str)
        h1 == HeaderMapInsert(headers, RETRY_AFTER, v1.value)
        v2 == from_str(to_string(info.limit))
        h2 == HeaderMapInsert(h1, "x-ratelimit-limit", v2.value)
        v3 == from_str(to_string(info.remaining))
        h3 == HeaderMapInsert(h2, "x-ratelimit-remaining", v3.value)
        v4 == from_str(to_string(info.reset_timestamp))
        h4 == HeaderMapInsert(h3, "x-ratelimit-reset", v4.value)
    IN  IF ~v1.ok THEN [headers |-> headers, result |-> "HeaderError"]
        ELSE IF ~v2.ok THEN [headers |-> h1, result |-> "HeaderError"]
        ELSE IF ~v3.ok THEN [headers |-> h2, result |-> "HeaderError"]
        ELSE IF ~v4.ok THEN [headers |-> h3, result |-> "HeaderError"]
        ELSE [headers |-> h4, result |-> "Ok"]

(* ------------------------------- actions -------------------------------- *)

\* RateLimiter::new: any configuration is taken as it is, the map is empty.
RateLimiterNew(cfg) ==
    /\ config = cfg
    /\ state = [k \in Keys |-> None]

Init ==
    /\ \E cfg \in RateLimitConfig : RateLimiterNew(cfg)
    /\ lock = NoTask
    /\ clock = 0
    /\ pc = [t \in Tasks |-> "idle"]
    /\ req = [t \in Tasks |-> NoReq]
    /\ now = [t \in Tasks |-> 0]
    /\ current = [t \in Tasks |-> None]
    /\ log = <<>>
    /\ arg = NoArg
    /\ ret = NoRet

\* The map behind a handle: the one allocation, or, for a handle to a copy,
\* the copy made from the filter's limiter, which no check writes.
Deref(limiter) == IF limiter = SharedMap THEN state ELSE [k \in Keys |-> None]

\* A request arrives: its task gets a clone of the limiter from the filter and
\* calls check_rate_limit(&ip), which waits for the write guard.  Tasks are
\* numbered in the order their requests arrive.
Call(t, addr) ==
    /\ pc[t] = "idle"
    /\ \A u \in Tasks : u < t => pc[u] # "idle"
    /\ req' = [req EXCEPT ![t] = [addr |-> addr, key |-> KeyOf(addr),
                                  seq |-> Len(log),
                                  limiter |-> clone(SharedMap)]]
    /\ pc' = [pc EXCEPT ![t] = "waiting"]
    /\ UNCHANGED <<config, state, lock, clock, now, current, log, arg, ret>>

LockFreeShared == TRUE

\* RwLock::write is granted only while no other guard is held.
LockFree == lock = NoTask

\* let mut state = self.state.write().await; let now = Instant::now();
\* let current = state.get(key).copied();
Acquire(t) ==
    /\ pc[t] = "waiting"
    /\ LockFree
    /\ lock' = t
    /\ now' = [now EXCEPT ![t] = clock]
    /\ current' = [current EXCEPT ![t] = Deref(req[t].limiter)[req[t].key]]
    /\ pc' = [pc EXCEPT ![t] = "locked"]
    /\ UNCHANGED <<config, state, clock, req, log, arg, ret>>

KeepGuard(t) == lock

\* The write guard goes out of scope when check_rate_limit returns or unwinds.
DropGuard(t) == IF lock = t THEN NoTask ELSE lock

\* The match: insert, build the outcome, return (or unwind); the guard is dropped.
Update(t) ==
    /\ pc[t] = "locked"
    /\ LET m == Match(current[t], now[t], UtcNow(clock))
           map == Deref(req[t].limiter)
           written == IF m.insert = None THEN map
                      ELSE Insert(map, req[t].key, m.insert)
           after == IF req[t].limiter = SharedMap THEN written ELSE state
       IN  \E r \in m.results :
               /\ state' = after
               /\ log' = Append(log, [addr |-> req[t].addr,
                                      key |-> req[t].key,
                                      seq |-> req[t].seq,
                                      now |-> now[t],
                                      rejected_at |->
                                          IF r.kind = "Rejected"
                                          THEN UtcNow(clock) ELSE 0,
                                      read |-> current[t],
                                      before |-> state,
                                      after |-> after,
                                      result |-> r])
    /\ lock' = DropGuard(t)
    /\ pc' = [pc EXCEPT ![t] = "done"]
    /\ req' = [req EXCEPT ![t] = NoReq]
    /\ now' = [now EXCEPT ![t] = 0]
    /\ current' = [current EXCEPT ![t] = None]
    /\ UNCHANGED <<config, clock, arg, ret>>

Tick ==
    /\ clock < MaxTime
    /\ clock' = clock + 1
    /\ UNCHANGED <<config, state, lock, pc, req, now, current, log, arg,
                   ret>>

Next ==
    \/ \E t \in Tasks, addr \in Addrs : Call(t, addr)
    \/ \E t \in Tasks : Acquire(t)
    \/ \E t \in Tasks : Update(t)
    \/ Tick

Spec == Init /\ [][Next]_vars

\* The limiter under the scheduling its runtime gives: a task that holds the
\* guard runs to its return (the body awaits nothing), and a task waiting for
\* the guard gets it once it is free often enough (the lock queues waiters).
\* Progress does not depend on the rendering or on the length of the window,
\* so the configurations are those of the default format with a window of one
\* tick, with every quota.
FairInit ==
    /\ Init
    /\ config.retry_after_format = default.retry_after_format
    /\ config.window = 1

SpecFair ==
    /\ FairInit
    /\ [][Next]_vars
    /\ \A t \in Tasks : WF_vars(Update(t)) /\ SF_vars(Acquire(t))

(* ------------------------ more requests than tasks ---------------------- *)

\* The server runs a task per request for as long as requests come: a task
\* that has returned is gone and the next request gets a new one.  Runs of
\* MaxChecks requests under the largest quota and window drawn.
Issued ==
    Len(log) + Cardinality({t \in Tasks : pc[t] \in {"waiting", "locked"}})

BurstInit ==
    /\ Init
    /\ config = [max_requests |-> MaxQuota,
                 window |-> MaxWindow,
                 retry_after_format |-> "Seconds"]

BurstCall(t, addr) ==
    /\ Issued < MaxChecks
    /\ Call(t, addr)

Recycle(t) ==
    /\ pc[t] = "done"
    /\ pc' = [pc EXCEPT ![t] = "idle"]
    /\ UNCHANGED <<config, state, lock, clock, req, now, current, log, arg,
                   ret>>

BurstNext ==
    \/ \E t \in Tasks, addr \in Addrs : BurstCall(t, addr)
    \/ \E t \in Tasks : Acquire(t)
    \/ \E t \in Tasks : Update(t)
    \/ \E t \in Tasks : Recycle(t)
    \/ Tick

SpecBurst == BurstInit /\ [][BurstNext]_vars

(* --------------------------- free functions ---------------------------- *)

\* The configuration factories and add_rate_limit_headers take no limiter:
\* they are called on arguments of the caller's choosing.  The limiter's
\* variables stay as constructed.
limiterVars == <<config, state, lock, clock, pc, req, now, current, log>>

\* max_requests arguments: the small quotas, the default and the largest word.
ArgQuotas == {0, 1, MaxQuota, DefaultMaxRequests, U32Modulus - 1}

\* window_seconds arguments.
ArgSeconds == {0, 1, MaxWindow, MinuteSecs}

\* retry_after strings a caller can put in a RateLimitInfo: a count of
\* seconds, a date, the empty string, a tab, and strings with a control
\* character (NUL inside a word, DEL).
ArgStrings ==
    {to_string(as_secs(MaxWindow)), to_rfc2822(UtcNow(MaxTime)), <<>>, <<9>>,
     <<105, 0, 99>>, <<127>>}

ArgInfos ==
    [retry_after_str : ArgStrings,
     limit : 0 .. MaxQuota,
     remaining : 0 .. MaxQuota,
     reset_timestamp : {0, timestamp(UtcNow(MaxTime))},
     retry_after_format : RetryAfterFormat]

\* Header maps a response can hold before the call: none of the four, or an
\* older Retry-After.
ArgHeaders == {EmptyHeaders, HeaderMapInsert(EmptyHeaders, RETRY_AFTER, to_string(1))}

PureInit ==
    /\ RateLimiterNew(default)
    /\ lock = NoTask
    /\ clock = 0
    /\ pc = [t \in Tasks |-> "idle"]
    /\ req = [t \in Tasks |-> NoReq]
    /\ now = [t \in Tasks |-> 0]
    /\ current = [t \in Tasks |-> None]
    /\ log = <<>>
    /\ arg = NoArg
    /\ ret = NoRet

ApplyDefault ==
    /\ arg' = [fn |-> "default"]
    /\ ret' = [returned |-> TRUE, value |-> default]
    /\ UNCHANGED limiterVars

ApplyMaxPerMinute(max) ==
    /\ arg' = [fn |-> "max_per_minute", max |-> max]
    /\ ret' = [returned |-> TRUE, value |-> max_per_minute(max)]
    /\ UNCHANGED limiterVars

ApplyMaxPerWindow(max_requests, window_seconds) ==
    /\ arg' = [fn |-> "max_per_window", max_requests |-> max_requests,
               window_seconds |-> window_seconds]
    /\ ret' = [returned |-> TRUE,
               value |-> max_per_window(max_requests, window_seconds)]
    /\ UNCHANGED limiterVars

ApplyAddHeaders(headers, info) ==
    /\ arg' = [fn |-> "add_rate_limit_headers", headers |-> headers,
               info |-> info]
    /\ ret' = [returned |-> TRUE, value |-> add_rate_limit_headers(headers, info)]
    /\ UNCHANGED limiterVars

PureNext ==
    \/ ApplyDefault
    \/ \E max \in ArgQuotas : ApplyMaxPerMinute(max)
    \/ \E max_requests \in ArgQuotas, window_seconds \in ArgSeconds :
           ApplyMaxPerWindow(max_requests, window_seconds)
    \/ \E headers \in ArgHeaders, info \in ArgInfos :
           ApplyAddHeaders(headers, info)

SpecPure == PureInit /\ [][PureNext]_vars

(* ------------------------- reading the history -------------------------- *)

N == config.max_requests

ValidConfig == config.max_requests >= 1 /\ config.window >= 1

\* The completed checks of key k, in order.
LogOf(k) == SelectSeq(log, LAMBDA e : e.key = k)

Admitted(e) == e.result.kind = "Admitted"

Rejected(e) == e.result.kind = "Rejected"

\* What an outcome says apart from wall-clock renderings.
Core(r) ==
    IF r.kind = "Admitted" THEN <<"Admitted", r.remaining>>
    ELSE IF r.kind = "Rejected" THEN <<"Rejected", r.retry_after>>
    ELSE <<"Panic", 0>>

\* Positions of L whose check is made within one window of the first.
FirstWindow(L) == {i \in 1 .. Len(L) : L[i].now - L[1].now <= config.window}

(* ------------------------------- claims --------------------------------- *)

\* C1: with max_requests = N >= 1 and a key that had no entry, of the checks
\* for that key made within one window of the first, exactly the first N are
\* admitted, with remaining N-1, N-2, ..., 0 in that order, and the (N+1)th
\* and every later one is rejected.
C1_FirstWindowQuota ==
    N >= 1 =>
        \A k \in Keys :
            LET L == LogOf(k)
            IN  \A i \in FirstWindow(L) :
                    IF i <= N
                    THEN Admitted(L[i]) /\ L[i].result.remaining = N - i
                    ELSE Rejected(L[i])

\* C1 witness: a quota of 2 used up inside one window and a third check rejected.
C1_Witness ==
    /\ N = 2
    /\ \E k \in Keys :
           LET L == LogOf(k)
           IN  /\ Len(L) = 3
               /\ FirstWindow(L) = 1 .. 3
               /\ Core(L[1].result) = <<"Admitted", 1>>
               /\ Core(L[2].result) = <<"Admitted", 0>>
               /\ Rejected(L[3])

\* Every task has finished, all checks were for one key, all were issued before
\* any of them completed, and all fall within one window.
ConcurrentBatch ==
    /\ \A t \in Tasks : pc[t] = "done"
    /\ \A i \in 1 .. Len(log) : log[i].key = log[1].key /\ log[i].seq = 0
    /\ FirstWindow(log) = 1 .. Len(log)

\* C2: C concurrent checks for one key within one window under a quota
\* 1 <= N < C: under every interleaving exactly N are admitted and exactly
\* C - N are rejected.
C2_ConcurrentExact ==
    (ConcurrentBatch /\ N >= 1 /\ N < NumTasks) =>
        /\ Cardinality({i \in 1 .. Len(log) : Admitted(log[i])}) = N
        /\ Cardinality({i \in 1 .. Len(log) : Rejected(log[i])}) = NumTasks - N

\* C2 witness: a finished concurrent batch larger than the quota, in which a
\* task that arrived later was served before the first one.
C2_Witness ==
    /\ ConcurrentBatch
    /\ N >= 1 /\ N < NumTasks
    /\ Len(log) = NumTasks
    /\ Rejected(log[NumTasks])
    /\ log[1].now < log[NumTasks].now

\* The entry a check e of a key leaves when it finds the entry prev.
EntryAfter(prev, e) ==
    LET m == Match(prev, e.now, 0)
    IN  IF m.insert = None THEN prev ELSE m.insert

RECURSIVE KeyReplay(_, _)
\* The entry of a key after the first i checks of its own history L, run one
\* after another on a map that holds no other key.
KeyReplay(L, i) ==
    IF i = 0 THEN None ELSE EntryAfter(KeyReplay(L, i - 1), L[i])

\* The outcomes (apart from wall-clock renderings) a check e can get when it
\* finds the entry prev.
CoresAfter(prev, e) == {Core(r) : r \in Match(prev, e.now, 0).results}

\* C3: two distinct keys never influence each other.  A check for key A leaves
\* the entry of every other key unchanged; the entry a check for B reads and
\* the outcome it gets are those of B's own history run alone; and with
\* max_requests >= 1 the first check for B is admitted with remaining =
\* max_requests - 1 even after A's quota is exhausted.
C3_KeysIndependent ==
    /\ \A i \in 1 .. Len(log) :
           \A k \in Keys \ {log[i].key} : log[i].after[k] = log[i].before[k]
    /\ \A k \in Keys :
           LET L == LogOf(k)
           IN  \A i \in 1 .. Len(L) :
                   /\ L[i].read = KeyReplay(L, i - 1)
                   /\ L[i].after[k] = KeyReplay(L, i)
                   /\ Core(L[i].result) \in CoresAfter(L[i].read, L[i])
                   /\ (i = 1 /\ N >= 1) => Core(L[i].result) = <<"Admitted", N - 1>>

\* C3 witness: key A is rejected (quota exhausted), then the first check for
\* another key B is admitted with remaining = max_requests - 1.
C3_Witness ==
    /\ N >= 1
    /\ \E i, j \in 1 .. Len(log) :
           /\ i < j
           /\ Rejected(log[i])
           /\ log[j].key # log[i].key
           /\ log[j].read = None
           /\ log[j].before[log[i].key] # None
           /\ Core(log[j].result) = <<"Admitted", N - 1>>

\* The check e found the quota of its key used up and the window fully elapsed.
ExhaustedAndElapsed(e) ==
    /\ e.read # None
    /\ e.read[2] >= N
    /\ e.now - e.read[1] > config.window

\* C4: with max_requests >= 1, a check for a key whose quota is exhausted, made
\* once the window has fully elapsed (now - window_start > window), is admitted
\* with remaining = max_requests - 1 and leaves the entry (now, 1).
C4_FullReset ==
    N >= 1 =>
        \A i \in 1 .. Len(log) :
            ExhaustedAndElapsed(log[i]) =>
                /\ Core(log[i].result) = <<"Admitted", N - 1>>
                /\ log[i].after[log[i].key] = <<log[i].now, 1>>

\* C4 witness: a key is rejected, and its next check after the window has
\* elapsed resets the window.
C4_Witness ==
    /\ N >= 1
    /\ \E k \in Keys :
           LET L == LogOf(k)
           IN  \E i \in 2 .. Len(L) :
                   /\ Rejected(L[i - 1])
                   /\ ExhaustedAndElapsed(L[i])
                   /\ L[i].after[k] = <<L[i].now, 1>>

\* C5: every rejected check carries a retry_after strictly greater than zero,
\* also a check made exactly window after window_start.  Stated for the
\* configurations the data model allows (max_requests >= 1, window > 0).
C5_RetryAfterPositive ==
    ValidConfig =>
        \A i \in 1 .. Len(log) :
            Rejected(log[i]) => log[i].result.retry_after > 0

\* The rejection as the test route renders it with RetryAfterFormat::Seconds.
SecondsHeader(rejection) == parse_u64(get_rate_limit_info(rejection).retry_after_str)

\* C6: every rejected check carries a retry_after of at most the configured
\* window (and not below zero); rendered in Seconds format, the Retry-After
\* value is an integer no greater than the window in seconds.
C6_RetryAfterAtMostWindow ==
    \A i \in 1 .. Len(log) :
        Rejected(log[i]) =>
            /\ log[i].result.retry_after >= 0
            /\ log[i].result.retry_after <= config.window
            /\ log[i].result.retry_after_format = "Seconds" =>
                   /\ SecondsHeader(log[i].result) * TicksPerSec <= config.window
                   /\ SecondsHeader(log[i].result) = as_secs(log[i].result.retry_after)

\* C6 witness: a rejection in Seconds format that still has to wait.
C6_Witness ==
    \E i \in 1 .. Len(log) :
        /\ Rejected(log[i])
        /\ log[i].result.retry_after_format = "Seconds"
        /\ log[i].result.retry_after = config.window
        /\ config.window = MaxWindow

\* C7: Retry-After tells when retrying is permitted: if a check for a key at
\* time t is rejected with retry_after = r, the next check for that key made at
\* t + r or later is admitted.  Stated for the configurations the data model
\* allows (max_requests >= 1, window > 0).
C7_RetryAfterHonoured ==
    ValidConfig =>
        \A k \in Keys :
            LET L == LogOf(k)
            IN  \A i \in 1 .. Len(L) - 1 :
                    (Rejected(L[i]) /\ L[i + 1].now >= L[i].now + L[i].result.retry_after)
                        => Admitted(L[i + 1])

\* C8: with max_requests == 0 every check for every key is rejected, the first
\* check for an unseen key and the first check after an elapsed window too.
\* Stated for a window > 0, so that max_requests is the only invalid value.
C8_ZeroQuotaRejectsAll ==
    (N = 0 /\ config.window >= 1) => \A i \in 1 .. Len(log) : Rejected(log[i])

\* C9: invalid configurations are rejected at construction time, so no check
\* is ever evaluated with max_requests == 0 or window == 0.
C9_NoCheckUnderInvalidConfig ==
    Len(log) > 0 => (config.max_requests # 0 /\ config.window # 0)

\* The map a check e leaves when it runs alone on the map prev.
SeqStep(prev, e) == Insert(prev, e.key, EntryAfter(prev[e.key], e))

RECURSIVE SeqState(_)
\* The map after the first i checks of the log, run one after another.
SeqState(i) ==
    IF i = 0 THEN [k \in Keys |-> None] ELSE SeqStep(SeqState(i - 1), log[i])

\* C10: each check is atomic with respect to every other check.  At most one
\* task is between its read and its write; the entry a task has read is still
\* the stored entry when it writes; and the outcomes and entries of the
\* completed checks are those of the same calls run one at a time in the
\* order they completed.
C10_Atomic ==
    /\ Cardinality({t \in Tasks : pc[t] = "locked"}) <= 1
    /\ \A t \in Tasks : pc[t] = "locked" => current[t] = state[req[t].key]
    /\ \A i \in 1 .. Len(log) :
           /\ log[i].read = SeqState(i - 1)[log[i].key]
           /\ log[i].after = SeqState(i)
           /\ Core(log[i].result) \in CoresAfter(log[i].read, log[i])
    /\ state = SeqState(Len(log))

\* C10 witness: two checks for one key were waiting together; one has
\* incremented the count the other now holds the guard to read.
C10_Witness ==
    \E t \in Tasks :
        /\ pc[t] = "locked"
        /\ req[t].seq = 0
        /\ Len(log) >= 1
        /\ log[Len(log)].key = req[t].key
        /\ log[Len(log)].seq = 0
        /\ Admitted(log[Len(log)])
        /\ current[t] = log[Len(log)].after[req[t].key]
        /\ N >= 2

\* The keys that have an entry.
Entries == {k \in Keys : state[k] # None}

\* The window of k's entry has fully expired and no check for k is under way.
ExpiredIdle(k) ==
    /\ state[k] # None
    /\ clock - state[k][1] > config.window
    /\ \A t \in Tasks : pc[t] \in {"waiting", "locked"} => req[t].key # k

\* Every request has been served and the clock has run out: nothing is left
\* to happen.
Quiescent == clock = MaxTime /\ \A t \in Tasks : pc[t] = "done"

\* C11: the key set does not grow without bound: an entry whose window has
\* fully expired is eventually removed by a sweep, or the number of entries
\* never exceeds a maximum key count below the number of keys seen.  Stated at
\* the end of a run under a valid configuration: once nothing is left to
\* happen, no expired entry is left or the entries are fewer than the keys
\* that were seen.
C11_KeySetBounded ==
    (Quiescent /\ ValidConfig) =>
        \/ \A k \in Keys : ~ExpiredIdle(k)
        \/ Cardinality(Entries) < Cardinality({log[i].key : i \in 1 .. Len(log)})

\* C12: every check completes and releases the guard on every path: the guard
\* is held only by a task inside the match, a finished task holds nothing, and
\* under fair scheduling a waiting check always reaches its outcome, whatever
\* keys the other checks are for.
C12_ChecksComplete ==
    /\ [](lock # NoTask => pc[lock] = "locked")
    /\ []((\A t \in Tasks : pc[t] \in {"idle", "done"}) => lock = NoTask)
    /\ \A t \in Tasks : (pc[t] = "waiting") ~> (pc[t] = "done")

\* C12 witness: a check that had to wait while a check for another key held
\* the guard has completed, on a path that admits and on one that rejects.
C12_Witness ==
    /\ lock = NoTask
    /\ Len(log) = 3
    /\ log[2].seq = 0 /\ log[3].seq = 0
    /\ log[1].key # log[2].key
    /\ Admitted(log[2])
    /\ Rejected(log[3])

(* ----------------------------- C13 .. C14 ------------------------------- *)

\* The response a rejection handler builds: the headers that
\* add_rate_limit_headers puts on a fresh response from the rejection's info.
RejectionResponse(rejection) ==
    add_rate_limit_headers(EmptyHeaders, get_rate_limit_info(rejection))

\* C13: every rejected check yields a rejection with limit = max_requests; the
\* info get_rate_limit_info derives from it has remaining = 0 and limit =
\* max_requests; and the response built from that info carries the four
\* headers Retry-After, X-RateLimit-Limit, X-RateLimit-Remaining and
\* X-RateLimit-Reset, holding the info's values.
C13_RejectionInfoAndHeaders ==
    \A i \in 1 .. Len(log) :
        Rejected(log[i]) =>
            LET rejection == log[i].result
                info == get_rate_limit_info(rejection)
                response == RejectionResponse(rejection)
            IN  /\ rejection.limit = config.max_requests
                /\ info.remaining = 0
                /\ info.limit = config.max_requests
                /\ response.result = "Ok"
                /\ DOMAIN response.headers = HeaderNames
                /\ response.headers[RETRY_AFTER] = info.retry_after_str
                /\ parse_u64(response.headers["x-ratelimit-limit"])
                       = config.max_requests
                /\ parse_u64(response.headers["x-ratelimit-remaining"]) = 0
                /\ parse_u64(response.headers["x-ratelimit-reset"])
                       = info.reset_timestamp

\* C13 witness: a rejection under a quota of two, after both admissions.
C13_Witness ==
    /\ config.max_requests = 2
    /\ Len(log) = 3
    /\ Rejected(log[3])
    /\ DOMAIN RejectionResponse(log[3].result).headers = HeaderNames

\* C14: in every outcome of every check, under every configuration (a quota
\* of zero included; stated for the windows of at least one tick), no
\* subtraction overflows (no panic, no wrapped value): the reported remaining
\* and limit are at most max_requests.
C14_RemainingWithinQuota ==
    \A i \in 1 .. Len(log) :
        config.window >= 1 =>
        LET r == log[i].result
        IN  /\ r.kind # "Panic"
            /\ Admitted(log[i]) =>
                   r.remaining <= config.max_requests
                   /\ r.limit <= config.max_requests
            /\ Rejected(log[i]) =>
                   get_rate_limit_info(r).remaining <= config.max_requests
                   /\ get_rate_limit_info(r).limit <= config.max_requests

(* ------------------------------ C15, C17 -------------------------------- *)

HasInvalidByte(s) == \E i \in 1 .. Len(s) : ~IsValidByte(s[i])

\* C15: add_rate_limit_headers always returns, with Ok or with HeaderError;
\* it returns HeaderError exactly when a value it has to set holds a byte
\* that is not valid on the wire (a control character in retry_after); then
\* the caller's headers are as they were before the call, and on Ok the four
\* headers hold the info's values and the other headers are untouched.
C15_InvalidHeaderIsError ==
    (ret.returned /\ arg.fn = "add_rate_limit_headers") =>
        LET info == arg.info
            out == ret.value
        IN  /\ out.result \in {"Ok", "HeaderError"}
            /\ out.result = "HeaderError" <=> HasInvalidByte(info.retry_after_str)
            /\ out.result = "HeaderError" => out.headers = arg.headers
            /\ out.result = "Ok" =>
                   /\ DOMAIN out.headers = DOMAIN arg.headers \cup HeaderNames
                   /\ out.headers[RETRY_AFTER] = info.retry_after_str
                   /\ out.headers["x-ratelimit-limit"] = to_string(info.limit)
                   /\ out.headers["x-ratelimit-remaining"]
                          = to_string(info.remaining)
                   /\ out.headers["x-ratelimit-reset"]
                          = to_string(info.reset_timestamp)
            /\ \A n \in DOMAIN out.headers : ~HasInvalidByte(out.headers[n])

\* C15 witness: the call on a retry_after with a NUL byte returned HeaderError
\* and left the response's older Retry-After in place.
C15_Witness ==
    /\ ret.returned
    /\ arg.fn = "add_rate_limit_headers"
    /\ arg.info.retry_after_str = <<105, 0, 99>>
    /\ arg.headers # EmptyHeaders
    /\ ret.value.result = "HeaderError"
    /\ ret.value.headers[RETRY_AFTER] = to_string(1)

\* C17: default() is 60 requests per 60 s with HttpDate; max_per_minute(n) is
\* n requests per 60 s with HttpDate; max_per_window(n, s) is n requests per
\* s seconds with HttpDate, for every n and s.
C17_FactoryValues ==
    ret.returned =>
        /\ arg.fn = "default" =>
               ret.value = [max_requests |-> 60,
                            window |-> 60 * TicksPerSec,
                            retry_after_format |-> "HttpDate"]
        /\ arg.fn = "max_per_minute" =>
               ret.value = [max_requests |-> arg.max,
                            window |-> 60 * TicksPerSec,
                            retry_after_format |-> "HttpDate"]
        /\ arg.fn = "max_per_window" =>
               ret.value = [max_requests |-> arg.max_requests,
                            window |-> arg.window_seconds * TicksPerSec,
                            retry_after_format |-> "HttpDate"]

\* C17 witness: max_per_window was called with a quota and a window that are
\* neither the default's nor each other's.
C17_Witness ==
    /\ ret.returned
    /\ arg.fn = "max_per_window"
    /\ arg.max_requests = 1
    /\ arg.window_seconds = MaxWindow
    /\ ret.value.max_requests = 1
    /\ as_secs(ret.value.window) = MaxWindow

(* ----------------------------- C16 .. C20 ------------------------------- *)

\* str::parse::<u64>().is_ok(): a non-empty string of digits.
ParsesAsU64(s) == Len(s) > 0 /\ \A i \in 1 .. Len(s) : IsDigit(s[i])

\* A date as to_rfc2822 prints it: digits of the seconds, then the zone.
ParsesAsDate(s) ==
    /\ Len(s) > Len(ZoneSuffix)
    /\ SubSeq(s, Len(s) - Len(ZoneSuffix) + 1, Len(s)) = ZoneSuffix
    /\ ParsesAsU64(SubSeq(s, 1, Len(s) - Len(ZoneSuffix)))

\* What C16 says of both formats alike: the Seconds rendering is the whole
\* seconds of retry_after, reset_time is not earlier than the rejection, and
\* reset_timestamp is the epoch seconds of reset_time.
RenderingCommon(e) ==
    LET rejection == e.result
        info == get_rate_limit_info(rejection)
    IN  /\ rejection.retry_after_format = "Seconds" =>
               /\ ParsesAsU64(info.retry_after_str)
               /\ parse_u64(info.retry_after_str) = as_secs(rejection.retry_after)
               /\ parse_u64(info.retry_after_str) >= 0
        /\ rejection.retry_after_format = "HttpDate" =>
               ParsesAsDate(info.retry_after_str)
        /\ rejection.reset_time >= e.rejected_at
        /\ info.reset_timestamp = timestamp(rejection.reset_time)

C18_RejectionChangesNothing ==
    \A i \in 1 .. Len(log) :
        Rejected(log[i]) =>
            /\ log[i].after = log[i].before
            /\ \A k \in Keys : log[i].after[k] = log[i].before[k]
            /\ log[i].after[log[i].key] = log[i].read

\* C18 witness: two rejections of one key in a row, the second at a later
\* time than the first, both leaving the entry that the admission stored.
C18_Witness ==
    /\ Len(log) = 3
    /\ Admitted(log[1]) /\ Rejected(log[2]) /\ Rejected(log[3])
    /\ log[1].key = log[2].key /\ log[2].key = log[3].key
    /\ log[3].now > log[2].now
    /\ state[log[3].key] = log[1].after[log[1].key]

\* An admission inside an open window: an entry was read, the window has not
\* passed and the count is below the quota.
IncrementArm(e) ==
    /\ Admitted(e)
    /\ e.read # None
    /\ e.now - e.read[1] <= config.window
    /\ e.read[2] < config.max_requests

\* C19: an admission inside an open window stores count + 1 under the same
\* window_start, reports remaining = max_requests - (count + 1) and reports
\* as reset time the end of the current window, window_start + window.
C19_IncrementReportsWindowEnd ==
    \A i \in 1 .. Len(log) :
        (ValidConfig /\ IncrementArm(log[i])) =>
            LET e == log[i]
                window_start == e.read[1]
                count == e.read[2]
            IN  /\ e.after[e.key] = <<window_start, count + 1>>
                /\ e.result.remaining = config.max_requests - (count + 1)
                /\ e.result.reset_timestamp
                       = timestamp(UtcNow(window_start) + config.window)

\* C20: a rejection reports retry_after = window - (now - window_start) and
\* as reset time the end of the window, window_start + window, which is the
\* time of the rejection plus retry_after.
C20_RejectionReportsWindowEnd ==
    \A i \in 1 .. Len(log) :
        (ValidConfig /\ Rejected(log[i])) =>
            LET e == log[i]
                window_start == e.read[1]
            IN  /\ e.result.retry_after
                       = config.window - (e.now - window_start)
                /\ e.result.reset_time = UtcNow(window_start) + config.window
                /\ e.rejected_at + e.result.retry_after = e.result.reset_time

(* ----------------------------- C21 .. C27 ------------------------------- *)

\* The keys for which a check has completed.
KeysChecked == {log[i].key : i \in 1 .. Len(log)}

\* A check that found no entry for its key.
FirstCheck(e) == e.read = None

C22_FixedWindowDecision ==
    N >= 1 =>
        \A i \in 1 .. Len(log) :
            LET e == log[i]
            IN  /\ e.result.kind # "Panic"
                /\ Admitted(e) <=>
                       \/ e.read = None
                       \/ e.now - e.read[1] > config.window
                       \/ e.read[2] < N

\* C22 witness: one key, 2 * max_requests checks, all admitted: max_requests
\* in the first window, max_requests after its expiry, and all but the first
\* (more than max_requests) within a span shorter than the window.
C22_Witness ==
    /\ N >= 2
    /\ \E k \in Keys :
           LET L == LogOf(k)
           IN  /\ Len(L) = 2 * N
               /\ \A i \in 1 .. Len(L) : Admitted(L[i])
               /\ \A i \in 1 .. N : L[i].after[k][1] = L[1].now
               /\ \A i \in N + 1 .. 2 * N : L[i].after[k][1] = L[N + 1].now
               /\ L[N + 1].now - L[1].now > config.window
               /\ L[2 * N].now - L[2].now < config.window
               /\ 2 * N - 1 > N

\* C23: every clone of the filter works on the one map: each check reads the
\* entry that the checks completed before it (through whichever clone) left
\* in that map, every admission is recorded in it and so counts against the
\* quota seen through every other clone, and no request holds a handle to
\* another map.
C23_ClonesShareOneMap ==
    /\ \A t \in Tasks : req[t].limiter = SharedMap
    /\ \A i \in 1 .. Len(log) :
           /\ log[i].before =
                  IF i = 1 THEN [k \in Keys |-> None] ELSE log[i - 1].after
           /\ log[i].read = log[i].before[log[i].key]
           /\ log[i].result.kind # "Rejected" =>
                  /\ log[i].after[log[i].key] # None
                  /\ log[i].after[log[i].key] # log[i].before[log[i].key]
    /\ Len(log) > 0 => state = log[Len(log)].after

\* C23 witness: under a quota of one, a request admitted through one clone
\* and a request for the same key, issued at the same time through another
\* clone, rejected.
C23_Witness ==
    /\ N = 1
    /\ Len(log) = 2
    /\ log[1].key = log[2].key
    /\ log[1].seq = 0 /\ log[2].seq = 0
    /\ log[1].now = log[2].now
    /\ Admitted(log[1])
    /\ Rejected(log[2])

\* C24: under max_requests >= 1 every stored entry has a count of at least
\* one and at most max_requests, in every reachable state.
C24_CountWithinQuota ==
    N >= 1 =>
        \A k \in Keys :
            state[k] # None => state[k][2] >= 1 /\ state[k][2] <= N

\* C24 witness: an entry whose count has reached a quota of two and stayed
\* there through a rejected check.
C24_Witness ==
    /\ N = 2
    /\ \E k \in Keys :
           /\ state[k] # None
           /\ state[k][2] = N
           /\ Len(LogOf(k)) = 3
           /\ Rejected(LogOf(k)[3])

\* The admitted checks among positions i .. j of L.
AdmittedIn(L, i, j) == {m \in i .. j : Admitted(L[m])}

\* C25: under max_requests = N >= 1, the admitted checks of one key whose
\* times lie in an interval no longer than the window number at most 2 * N.
C25_AtMostTwiceQuotaPerWindow ==
    N >= 1 =>
        \A k \in Keys :
            LET L == LogOf(k)
            IN  \A i \in 1 .. Len(L) : \A j \in i .. Len(L) :
                    L[j].now - L[i].now <= config.window =>
                        Cardinality(AdmittedIn(L, i, j)) <= 2 * N

\* C25 witness: under a quota of one, a key admitted, rejected at the last
\* instant of the window (an interval as long as the window, one admission)
\* and admitted again after it.
C25_Witness ==
    /\ N = 1
    /\ config.window >= 1
    /\ \E k \in Keys :
           LET L == LogOf(k)
           IN  /\ Len(L) = 3
               /\ Admitted(L[1]) /\ Rejected(L[2]) /\ Admitted(L[3])
               /\ L[2].now - L[1].now = config.window
               /\ Cardinality(AdmittedIn(L, 1, 2)) = 1
               /\ Cardinality(AdmittedIn(L, 1, 3)) = 2

\* C26: the stored timestamp is the start of the window: a check admitted
\* inside an open window leaves it, a rejected check leaves it, a first check
\* and a check after expiry set it to the check's now; the nows of the
\* checks, read under the write guard, do not decrease in the order of
\* completion, and no key's timestamp ever decreases.
C26_TimestampIsWindowStart ==
    \A i \in 1 .. Len(log) :
        LET e == log[i]
            k == e.key
        IN  /\ i > 1 => e.now >= log[i - 1].now
            /\ e.read = e.before[k]
            /\ e.read = None => e.after[k] = <<e.now, 1>>
            /\ e.read # None =>
                   /\ e.after[k][1] >= e.read[1]
                   /\ IF e.now - e.read[1] > config.window
                      THEN e.after[k] = <<e.now, 1>>
                      ELSE /\ e.after[k][1] = e.read[1]
                           /\ Admitted(e) => e.after[k][2] = e.read[2] + 1
                           /\ Rejected(e) => e.after[k] = e.read

\* C26 witness: a key admitted at its window start, admitted again later in
\* the window with the timestamp left at the start, then reset after expiry
\* with the timestamp set to that check's now.
C26_Witness ==
    /\ Len(log) = 3
    /\ log[1].key = log[2].key /\ log[2].key = log[3].key
    /\ Admitted(log[1]) /\ Admitted(log[2]) /\ Admitted(log[3])
    /\ log[2].now > log[1].now
    /\ log[2].after[log[2].key] = <<log[1].now, 2>>
    /\ log[3].now - log[1].now > config.window
    /\ state[log[3].key] = <<log[3].now, 1>>

\* C27: when add_rate_limit_headers returns an error the header map is as it
\* was before the call: none of the four headers was inserted or replaced.
C27_ErrorInsertsNothing ==
    (ret.returned /\ arg.fn = "add_rate_limit_headers"
                  /\ ret.value.result # "Ok") =>
        /\ ret.value.result = "HeaderError"
        /\ DOMAIN ret.value.headers = DOMAIN arg.headers
        /\ \A n \in DOMAIN arg.headers : ret.value.headers[n] = arg.headers[n]
        /\ \A n \in HeaderNames \ DOMAIN arg.headers :
               n \notin DOMAIN ret.value.headers

\* C27 witness: the call on an empty header map with a DEL byte in
\* retry_after and valid numbers returned the error and an empty map.
C27_Witness ==
    /\ ret.returned
    /\ arg.fn = "add_rate_limit_headers"
    /\ arg.headers = EmptyHeaders
    /\ arg.info.retry_after_str = <<127>>
    /\ arg.info.limit = MaxQuota
    /\ ret.value.result = "HeaderError"
    /\ DOMAIN ret.value.headers = {}

====
